---- MODULE Spec2Model ----
(***************************************************************************)
(* Model of monitor.py: the StatusTracker class state, the per-message     *)
(* handler PrinterMonitor.on_message, and the shutdown path                *)
(* (run_shutdown_strategy, shutdown_printer, send_email).                  *)
(*                                                                         *)
(* Time is in seconds.  An optional Python value is a sequence of length   *)
(* at most one: None is <<>> and a present value v is <<v>>.               *)
(***************************************************************************)
EXTENDS Integers, Sequences, FiniteSets, TLC

VARIABLES
    StatusTracker,   \* the class attributes of StatusTracker (lines 80-89)
    now,             \* the wall clock read by datetime.now()
    message_count,   \* PrinterMonitor.message_count
    last_update,     \* PrinterMonitor.last_update
    effects,         \* what the latest on_message call received, logged and called,
                     \* and what the messages so far reported and how they were spaced
    power_off_calls, \* times of the power-off commands given to the actuator so far
    threads          \* position and locals of each concurrently running on_message

vars == <<StatusTracker, now, message_count, last_update, effects, power_off_calls, threads>>

None == <<>>
Some(v) == <<v>>

---------------------------------------------------------------------------
(* Program constants *)

BED_THRESHOLD_TEMP == 40
SHUTDOWN_DELAY_SECONDS == 15 * 60
MAX_STATUS_INTERVAL == 5
NOZZLE_GUARD_TEMP == 180
FULL_STATUS_PERIOD == 60
MESSAGE_COUNT_MODULUS == 1000000

\* timedelta(minutes=m) in seconds
timedelta_minutes(m) == 60 * m

---------------------------------------------------------------------------
(* Bounds of the model and the inputs drawn by the handler *)

MaxMessages == 4

Deltas == {0, 300, 360}

EmptyStatus ==
    [print_stage |-> None, bed_temp |-> None, nozzle_temp |-> None,
     bed_target_temp |-> None, nozzle_target_temp |-> None]

\* Partial statuses delivered by PrinterStatus.from_mqtt: any field may be None.
Statuses ==
    {EmptyStatus}
    \cup {[EmptyStatus EXCEPT !.print_stage = Some(s)] : s \in {"PRINTING", "IDLE"}}
    \cup {[EmptyStatus EXCEPT !.bed_temp = Some(v)] : v \in {30, 50}}
    \cup {[EmptyStatus EXCEPT !.nozzle_temp = Some(v)] : v \in {90, 200}}
    \cup {[EmptyStatus EXCEPT !.bed_target_temp = Some(v)] : v \in {0, 60}}
    \cup {[EmptyStatus EXCEPT !.nozzle_target_temp = Some(v)] : v \in {0, 220}}
    \cup {[EmptyStatus EXCEPT !.print_stage = Some("IDLE"),
                              !.bed_target_temp = Some(0),
                              !.nozzle_target_temp = Some(0)]}

\* Exit status of os.system for the power-off command
ActuatorOutcomes == {"ok", "failed"}
\* send_email: credentials unset, mail sent, or smtplib raised
EmailOutcomes == {"skipped", "sent", "raised"}

---------------------------------------------------------------------------
(* StatusTracker *)

\* Mutant of reset_tracking: the fields are cleared but the clocks keep the
\* time the class body ran instead of being set to the time of the reset.
reset_tracking_keeps_clocks(t) ==
    [print_stage |-> None, bed_temp |-> 0, nozzle_temp |-> 0,
     bed_target_temp |-> None, nozzle_target_temp |-> None,
     threshold_since_idle |-> 0, threshold_start_bed |-> 0,
     threshold_start_bed_target |-> 0, threshold_start_nozzle_target |-> 0,
     status_time |-> t]

\* StatusTracker.reset_tracking at time t
reset_tracking(t) ==
    [print_stage |-> None,
     bed_temp |-> 0,
     nozzle_temp |-> 0,
     bed_target_temp |-> None,
     nozzle_target_temp |-> None,
     threshold_since_idle |-> t,
     threshold_start_bed |-> t,
     threshold_start_bed_target |-> t,
     threshold_start_nozzle_target |-> t,
     status_time |-> t]

\* Mutant of is_stale: the interval of the comment ("10 minutes") instead of
\* the value of MAX_STATUS_INTERVAL.
is_stale_ten_minutes(st, t) == t - st.status_time > timedelta_minutes(10)

\* the staleness test of StatusTracker.update
is_stale(st, t) == t - st.status_time > timedelta_minutes(MAX_STATUS_INTERVAL)

\* Mutant of merge_optional: the incoming value replaces the old one even
\* when it is None.
merge_optional_overwrite(old, new) == new

\* "if status.f is not None: StatusTracker.f = status.f" for an attribute that may be None
merge_optional(old, new) == IF new # None THEN new ELSE old
\* the same for an attribute that is always a number
merge_number(old, new) == IF new # None THEN new[1] ELSE old

\* The body of update with the value given to a re-armed clock (rearm) and
\* the value given to status_time (stamp) left open, for the mutants below.
update_variant(st, status, t, rearm, stamp) ==
    LET s0 == IF t - st.status_time > timedelta_minutes(MAX_STATUS_INTERVAL)
              THEN reset_tracking(t) ELSE st
        stage == IF status.print_stage # None THEN status.print_stage ELSE s0.print_stage
        bed == IF status.bed_temp # None THEN status.bed_temp[1] ELSE s0.bed_temp
        nozzle == IF status.nozzle_temp # None THEN status.nozzle_temp[1] ELSE s0.nozzle_temp
        bed_target == IF status.bed_target_temp # None
                      THEN status.bed_target_temp ELSE s0.bed_target_temp
        nozzle_target == IF status.nozzle_target_temp # None
                         THEN status.nozzle_target_temp ELSE s0.nozzle_target_temp
    IN  [print_stage |-> stage,
         bed_temp |-> bed,
         nozzle_temp |-> nozzle,
         bed_target_temp |-> bed_target,
         nozzle_target_temp |-> nozzle_target,
         threshold_since_idle |->
             IF ~(stage = Some("IDLE")) THEN rearm ELSE s0.threshold_since_idle,
         threshold_start_bed |->
             IF bed > BED_THRESHOLD_TEMP THEN rearm ELSE s0.threshold_start_bed,
         threshold_start_bed_target |->
             IF ~(bed_target = Some(0)) THEN rearm ELSE s0.threshold_start_bed_target,
         threshold_start_nozzle_target |->
             IF ~(nozzle_target = Some(0)) THEN rearm
             ELSE s0.threshold_start_nozzle_target,
         status_time |-> IF stamp THEN t ELSE s0.status_time]

\* Mutant of update: a re-armed clock holds the deadline of its rule (the
\* time of the arrival plus SHUTDOWN_DELAY_SECONDS) instead of the time of
\* the arrival.
update_deadline_clocks(st, status, t) ==
    update_variant(st, status, t, t + SHUTDOWN_DELAY_SECONDS, TRUE)

\* Mutant of update: without line 112, status_time is set by the staleness
\* reset only.
update_without_stamp(st, status, t) ==
    update_variant(st, status, t, t, FALSE)

\* StatusTracker.update(status) at time t: the staleness reset, the stamp of
\* status_time, then field by field the merge and the re-arming of its clock
update(st, status, t) ==
    LET s0 == IF is_stale(st, t) THEN reset_tracking(t) ELSE st
        stage == merge_optional(s0.print_stage, status.print_stage)
        bed == merge_number(s0.bed_temp, status.bed_temp)
        nozzle == merge_number(s0.nozzle_temp, status.nozzle_temp)
        bed_target == merge_optional(s0.bed_target_temp, status.bed_target_temp)
        nozzle_target == merge_optional(s0.nozzle_target_temp, status.nozzle_target_temp)
    IN  [print_stage |-> stage,
         bed_temp |-> bed,
         nozzle_temp |-> nozzle,
         bed_target_temp |-> bed_target,
         nozzle_target_temp |-> nozzle_target,
         threshold_since_idle |->
             IF ~(stage = Some("IDLE")) THEN t ELSE s0.threshold_since_idle,
         threshold_start_bed |->
             IF bed > BED_THRESHOLD_TEMP THEN t ELSE s0.threshold_start_bed,
         threshold_start_bed_target |->
             IF ~(bed_target = Some(0)) THEN t ELSE s0.threshold_start_bed_target,
         threshold_start_nozzle_target |->
             IF ~(nozzle_target = Some(0)) THEN t ELSE s0.threshold_start_nozzle_target,
         status_time |-> t]

\* MetaStatusTracker properties
time_since_threshold_bed(st, t) == t - st.threshold_start_bed
time_since_threshold_bed_target(st, t) == t - st.threshold_start_bed_target
time_since_threshold_nozzle_target(st, t) == t - st.threshold_start_nozzle_target
time_since_idle(st, t) == t - st.threshold_since_idle

\* Mutant of run_shutdown_strategy: each clock must be strictly older than
\* SHUTDOWN_DELAY_SECONDS.
run_shutdown_strategy_strict(st, t) ==
    IF st.bed_temp < BED_THRESHOLD_TEMP
       /\ time_since_threshold_bed(st, t) > SHUTDOWN_DELAY_SECONDS
    THEN "bed_temp<40.0"
    ELSE IF st.bed_target_temp = Some(0)
            /\ time_since_threshold_bed_target(st, t) > SHUTDOWN_DELAY_SECONDS
    THEN "bed_target_temp=0"
    ELSE IF st.nozzle_target_temp = Some(0)
            /\ time_since_threshold_nozzle_target(st, t) > SHUTDOWN_DELAY_SECONDS
    THEN "nozzle_target_temp=0"
    ELSE IF st.print_stage = Some("IDLE")
            /\ time_since_idle(st, t) > SHUTDOWN_DELAY_SECONDS
    THEN "IDLE state"
    ELSE ""

\* Mutant of run_shutdown_strategy: the IDLE rule is tried first.
run_shutdown_strategy_idle_first(st, t) ==
    IF st.print_stage = Some("IDLE")
       /\ time_since_idle(st, t) >= SHUTDOWN_DELAY_SECONDS
    THEN "IDLE state"
    ELSE IF st.bed_temp < BED_THRESHOLD_TEMP
            /\ time_since_threshold_bed(st, t) >= SHUTDOWN_DELAY_SECONDS
    THEN "bed_temp<40.0"
    ELSE IF st.bed_target_temp = Some(0)
            /\ time_since_threshold_bed_target(st, t) >= SHUTDOWN_DELAY_SECONDS
    THEN "bed_target_temp=0"
    ELSE IF st.nozzle_target_temp = Some(0)
            /\ time_since_threshold_nozzle_target(st, t) >= SHUTDOWN_DELAY_SECONDS
    THEN "nozzle_target_temp=0"
    ELSE ""

\* The rules of run_shutdown_strategy, in the order they are tried; the result
\* is the reason passed to shutdown_printer, or "" when no rule matches.
run_shutdown_strategy(st, t) ==
    IF st.bed_temp < BED_THRESHOLD_TEMP
       /\ time_since_threshold_bed(st, t) >= SHUTDOWN_DELAY_SECONDS
    THEN "bed_temp<40.0"
    ELSE IF st.bed_target_temp = Some(0)
            /\ time_since_threshold_bed_target(st, t) >= SHUTDOWN_DELAY_SECONDS
    THEN "bed_target_temp=0"
    ELSE IF st.nozzle_target_temp = Some(0)
            /\ time_since_threshold_nozzle_target(st, t) >= SHUTDOWN_DELAY_SECONDS
    THEN "nozzle_target_temp=0"
    ELSE IF st.print_stage = Some("IDLE")
            /\ time_since_idle(st, t) >= SHUTDOWN_DELAY_SECONDS
    THEN "IDLE state"
    ELSE ""

\* Mutant of nozzle_still_high: shutdown_printer without its guard.
nozzle_still_high_unguarded(st) == FALSE

\* the guard at the head of shutdown_printer
nozzle_still_high(st) == st.nozzle_temp > NOZZLE_GUARD_TEMP

---------------------------------------------------------------------------
(* PrinterMonitor.on_message, called for one message at a time *)

NoEffects ==
    [status |-> EmptyStatus, stale |-> FALSE, merged |-> reset_tracking(0),
     reason |-> "", waiting |-> FALSE, actuator |-> "none", email |-> "none",
     error_logged |-> FALSE, propagated |-> FALSE, full_status_requested |-> FALSE,
     shutdown_logged |-> FALSE, reported |-> {}, every_gap_stale |-> TRUE,
     since_request |-> 0]

\* Mutant of handler_propagates: no try/except around the two calls.
handler_propagates_uncaught(raised) == raised

\* the except clause of on_message: an exception raised inside the try block
\* is logged and does not leave the handler
handler_propagates(raised) == FALSE

\* A thread that is not in on_message.  steps lists, in the order they were
\* executed, the statements of shutdown_printer the thread's latest call ran.
Idle == [pc |-> "idle", status |-> EmptyStatus, reason |-> "", steps |-> <<>>]
Threads == {1, 2}

Init ==
    /\ now = 0
    /\ StatusTracker = reset_tracking(0)
    /\ message_count = 0
    /\ last_update = None
    /\ effects = NoEffects
    /\ power_off_calls = <<>>
    /\ threads = [t \in Threads |-> Idle]

\* Mutant of shutdown_printer: the reset comes last, after send_email, so an
\* exception of send_email skips it.
shutdown_printer_reset_last(st, t, reason, act, mail) ==
    IF st.nozzle_temp > NOZZLE_GUARD_TEMP
    THEN [tracker |-> st, waiting |-> TRUE, actuator |-> "none", email |-> "none",
          raised |-> FALSE, logged |-> FALSE]
    ELSE [tracker |-> IF mail = "raised" THEN st ELSE
                      [print_stage |-> None, bed_temp |-> 0, nozzle_temp |-> 0,
                       bed_target_temp |-> None, nozzle_target_temp |-> None,
                       threshold_since_idle |-> t, threshold_start_bed |-> t,
                       threshold_start_bed_target |-> t,
                       threshold_start_nozzle_target |-> t, status_time |-> t],
          waiting |-> FALSE, actuator |-> act, email |-> mail,
          raised |-> mail = "raised", logged |-> TRUE]

\* Mutant of shutdown_printer: the exit status of the power-off command is
\* tested and a failed command returns before send_email.
shutdown_printer_silent_failure(st, t, reason, act, mail) ==
    IF st.nozzle_temp > NOZZLE_GUARD_TEMP
    THEN [tracker |-> st, waiting |-> TRUE, actuator |-> "none", email |-> "none",
          raised |-> FALSE, logged |-> FALSE]
    ELSE [tracker |-> reset_tracking(t), waiting |-> FALSE, actuator |-> act,
          email |-> IF act = "failed" THEN "none" ELSE mail,
          raised |-> act # "failed" /\ mail = "raised", logged |-> TRUE]

\* shutdown_printer(reason) called at time t on the merged state st: the
\* nozzle guard returns early; otherwise "Shutdown conditions met(reason)" is
\* logged, the tracker is reset, os.system runs the power-off command (exit
\* status act) and send_email is called with the reason (mail).
shutdown_printer(st, t, reason, act, mail) ==
    IF nozzle_still_high(st)
    THEN [tracker |-> st, waiting |-> TRUE, actuator |-> "none", email |-> "none",
          raised |-> FALSE, logged |-> FALSE]
    ELSE [tracker |-> reset_tracking(t), waiting |-> FALSE, actuator |-> act,
          email |-> mail, raised |-> mail = "raised", logged |-> TRUE]

\* whether shutdown_printer is called and gets past its guard to os.system and
\* send_email
calls_reached(st, reason) == reason # "" /\ ~nozzle_still_high(st)

\* line 220: whether on_message, entered with the counter at c, asks the
\* printer for its full status
requests_full_status(c) == c % FULL_STATUS_PERIOD = 0

\* Mutant of next_message_count: the counter is incremented and not wrapped.
next_message_count_unwrapped(c) == c + 1

\* lines 223-224: the counter is incremented and wrapped
next_message_count(c) == (c + 1) % MESSAGE_COUNT_MODULUS

\* The fields that a message has reported since the tracker was last reset,
\* when the rules are evaluated for the message arriving at time t: those of
\* `status`, and those known before unless the previous message shut down or
\* this one is stale.
reported_fields(status, t) ==
    {f \in DOMAIN status : status[f] # None}
    \cup (IF effects.actuator # "none" \/ is_stale(StatusTracker, t)
          THEN {} ELSE effects.reported)

\* on_message for a message arriving at time t with parsed status `status`,
\* with the outcomes act of os.system and mail of send_email if they are called
on_message(t, status, act, mail) ==
    \E merged \in {update(StatusTracker, status, t)} :
    \E reason \in {run_shutdown_strategy(merged, t)} :
    \E done \in {IF reason = ""
                 THEN [tracker |-> merged, waiting |-> FALSE, actuator |-> "none",
                       email |-> "none", raised |-> FALSE, logged |-> FALSE]
                 ELSE shutdown_printer(merged, t, reason, act, mail)} :
        /\ now' = t
        /\ message_count' = next_message_count(message_count)
        /\ last_update' = Some(t)
        /\ StatusTracker' = done.tracker
        /\ power_off_calls' = IF done.actuator # "none"
                              THEN Append(power_off_calls, t) ELSE power_off_calls
        /\ effects' =
             [status |-> status,
              stale |-> is_stale(StatusTracker, t),
              merged |-> merged,
              reason |-> reason,
              waiting |-> done.waiting,
              actuator |-> done.actuator,
              email |-> done.email,
              error_logged |-> done.raised /\ ~handler_propagates(done.raised),
              propagated |-> handler_propagates(done.raised),
              full_status_requested |-> requests_full_status(message_count),
              shutdown_logged |-> done.logged,
              reported |-> reported_fields(status, t),
              every_gap_stale |-> effects.every_gap_stale /\ is_stale(StatusTracker, t),
              since_request |-> IF requests_full_status(message_count)
                                THEN 1 ELSE effects.since_request + 1]
        /\ UNCHANGED threads

\* one delivery by the MQTT client: the message comes dt seconds after the
\* previous one and the two external calls, if reached, end in any way they can
receive(dt, status) ==
    LET t == now + dt
        merged == update(StatusTracker, status, t)
        reached == calls_reached(merged, run_shutdown_strategy(merged, t))
    IN  \E act \in IF reached THEN ActuatorOutcomes ELSE {"none"},
           mail \in IF reached THEN EmailOutcomes ELSE {"none"} :
            on_message(t, status, act, mail)

OnMessage ==
    /\ message_count < MaxMessages
    /\ ~effects.propagated
    /\ \E dt \in Deltas, status \in Statuses : receive(dt, status)

Next == OnMessage

Spec == Init /\ [][Next]_vars

---------------------------------------------------------------------------
(* The scenario of section 8: PRINTING at t=0, then IDLE with both targets 0
   one minute later, then arrivals that report no activity, never more than
   five minutes apart. *)

MaxScenarioMessages == 8

PrintingStatus == [EmptyStatus EXCEPT !.print_stage = Some("PRINTING")]
IdleStatus ==
    [EmptyStatus EXCEPT !.print_stage = Some("IDLE"),
                        !.bed_target_temp = Some(0),
                        !.nozzle_target_temp = Some(0)]
QuietStatuses ==
    {EmptyStatus, IdleStatus}
    \cup {[EmptyStatus EXCEPT !.bed_temp = Some(v)] : v \in {30, 50}}
QuietDeltas == {0, 60, 240, 300}

ScenarioPrinting ==
    /\ message_count = 0
    /\ receive(0, PrintingStatus)

ScenarioIdle ==
    /\ message_count = 1
    /\ receive(60, IdleStatus)

ScenarioQuiet ==
    /\ message_count >= 2
    /\ message_count < MaxScenarioMessages
    /\ ~effects.propagated
    /\ \E dt \in QuietDeltas, status \in QuietStatuses : receive(dt, status)

NextScenario == ScenarioPrinting \/ ScenarioIdle \/ ScenarioQuiet

SpecScenario == Init /\ [][NextScenario]_vars

---------------------------------------------------------------------------
(* on_message run by two threads at once.  StatusTracker is class state
   shared by every caller and nothing in monitor.py takes a lock, so the
   statements of two calls interleave; each thread reads datetime.now() when
   it executes a statement. *)

MaxConcMessages == 4

ConcDeltas == {0, 300}
ConcStatuses ==
    {EmptyStatus,
     [EmptyStatus EXCEPT !.nozzle_temp = Some(200)],
     [EmptyStatus EXCEPT !.bed_temp = Some(50)]}

at(t, label) == threads[t].pc = label
goto(t, label) == threads' = [threads EXCEPT ![t].pc = label]

\* lines 220-228: the counter, last_update and the parse of the payload
thread_receive(t) ==
    /\ at(t, "idle")
    /\ message_count < MaxConcMessages
    /\ \E dt \in ConcDeltas, status \in ConcStatuses :
        /\ now' = now + dt
        /\ last_update' = Some(now + dt)
        /\ threads' = [threads EXCEPT ![t] =
                          [pc |-> "update", status |-> status, reason |-> "",
                           steps |-> <<>>]]
    /\ message_count' = next_message_count(message_count)
    /\ UNCHANGED <<StatusTracker, effects, power_off_calls>>

\* line 231: StatusTracker.update(status)
thread_update(t) ==
    /\ at(t, "update")
    /\ StatusTracker' = update(StatusTracker, threads[t].status, now)
    /\ goto(t, "strategy")
    /\ UNCHANGED <<now, message_count, last_update, effects, power_off_calls>>

\* lines 142-153: the rules are evaluated; a match calls shutdown_printer
thread_strategy(t) ==
    /\ at(t, "strategy")
    /\ \E reason \in {run_shutdown_strategy(StatusTracker, now)} :
         threads' = [threads EXCEPT ![t].reason = reason,
                                    ![t].pc = IF reason = "" THEN "idle" ELSE "guard"]
    /\ UNCHANGED <<StatusTracker, now, message_count, last_update, effects,
                   power_off_calls>>

\* the thread goes to label and records the statement it has just executed
step(t, name, label) ==
    threads' = [threads EXCEPT ![t].pc = label,
                               ![t].steps = Append(threads[t].steps, name)]

\* Mutant of thread_guard: shutdown_printer without line 35, the power-off
\* command follows the log entry.
thread_guard_without_reset(t) ==
    /\ at(t, "guard")
    /\ IF StatusTracker.nozzle_temp > NOZZLE_GUARD_TEMP
       THEN goto(t, "idle")
       ELSE step(t, "log", "actuator")
    /\ UNCHANGED <<StatusTracker, now, message_count, last_update, effects,
                   power_off_calls>>

\* lines 31-34: the nozzle guard of shutdown_printer, then the log entry
\* "Shutdown conditions met"
thread_guard(t) ==
    /\ at(t, "guard")
    /\ IF nozzle_still_high(StatusTracker)
       THEN goto(t, "idle")
       ELSE step(t, "log", "reset")
    /\ UNCHANGED <<StatusTracker, now, message_count, last_update, effects,
                   power_off_calls>>

\* line 35: StatusTracker.reset_tracking()
thread_reset(t) ==
    /\ at(t, "reset")
    /\ StatusTracker' = reset_tracking(now)
    /\ step(t, "reset", "actuator")
    /\ UNCHANGED <<now, message_count, last_update, effects, power_off_calls>>

\* line 36: os.system runs the power-off command
thread_actuator(t) ==
    /\ at(t, "actuator")
    /\ power_off_calls' = Append(power_off_calls, now)
    /\ step(t, "actuator", "email")
    /\ UNCHANGED <<StatusTracker, now, message_count, last_update, effects>>

\* lines 37-40 and 233-234: send_email returns or raises, and on_message ends
thread_email(t) ==
    /\ at(t, "email")
    /\ step(t, "email", "idle")
    /\ UNCHANGED <<StatusTracker, now, message_count, last_update, effects,
                   power_off_calls>>

ConcReceive == \E t \in Threads : thread_receive(t)
ConcUpdate == \E t \in Threads : thread_update(t)
ConcStrategy == \E t \in Threads : thread_strategy(t)
ConcGuard == \E t \in Threads : thread_guard(t)
ConcReset == \E t \in Threads : thread_reset(t)
ConcActuator == \E t \in Threads : thread_actuator(t)
ConcEmail == \E t \in Threads : thread_email(t)

NextConc ==
    \/ ConcReceive
    \/ ConcUpdate
    \/ ConcStrategy
    \/ ConcGuard
    \/ ConcReset
    \/ ConcActuator
    \/ ConcEmail

SpecConc == Init /\ [][NextConc]_vars

---------------------------------------------------------------------------
(* The message counter over a long run: the monitor is followed from its
   first message, and from its 999900th, for MaxCounterMessages messages that
   come one second apart and report nothing. *)

MaxCounterMessages == 130

\* the number of messages handled before the run is picked up
CounterStarts == {0, 999900}

\* The monitor after k messages without news, the last one at time 0:
\* since_request counts the messages handled since the latest full-status
\* request, the one that sent it included.
InitCounter ==
    \E k \in CounterStarts :
        /\ now = 0
        /\ StatusTracker = reset_tracking(0)
        /\ message_count = k
        /\ last_update = IF k = 0 THEN None ELSE Some(0)
        /\ effects = [NoEffects EXCEPT
                         !.since_request = IF k = 0 THEN 0
                                           ELSE ((k - 1) % FULL_STATUS_PERIOD) + 1]
        /\ power_off_calls = <<>>
        /\ threads = [t \in Threads |-> Idle]

CounterMessage ==
    /\ now < MaxCounterMessages
    /\ receive(1, EmptyStatus)

NextCounter == CounterMessage

SpecCounter == InitCounter /\ [][NextCounter]_vars

---------------------------------------------------------------------------
(* Vocabulary of the properties *)

OptionalFields == {"print_stage", "bed_target_temp", "nozzle_target_temp"}
NumberFields == {"bed_temp", "nozzle_temp"}
Fields == OptionalFields \cup NumberFields

\* the value a present field of a partial status gives the aggregate
Reported(status, f) == IF f \in NumberFields THEN status[f][1] ELSE status[f]

FieldsOf(st) == [f \in Fields |-> st[f]]

\* st is a fresh episode started at time t: nothing known, every clock at t
Fresh(st, t) ==
    /\ st.print_stage = None /\ st.bed_target_temp = None /\ st.nozzle_target_temp = None
    /\ st.bed_temp = 0 /\ st.nozzle_temp = 0
    /\ st.threshold_since_idle = t /\ st.threshold_start_bed = t
    /\ st.threshold_start_bed_target = t /\ st.threshold_start_nozzle_target = t
    /\ st.status_time = t

LastCall == power_off_calls[Len(power_off_calls)]

Invoked(e) == e.actuator # "none"

\* The clocks of the rules whose condition holds in st: the countdowns running.
ArmedClocks(st) ==
    (IF st.bed_temp < BED_THRESHOLD_TEMP THEN {st.threshold_start_bed} ELSE {})
    \cup (IF st.bed_target_temp = Some(0) THEN {st.threshold_start_bed_target} ELSE {})
    \cup (IF st.nozzle_target_temp = Some(0)
          THEN {st.threshold_start_nozzle_target} ELSE {})
    \cup (IF st.print_stage = Some("IDLE") THEN {st.threshold_since_idle} ELSE {})

\* the earliest of them: the time the idle countdown of st started
CountdownStart(st) ==
    CHOOSE c \in ArmedClocks(st) : \A d \in ArmedClocks(st) : c <= d

\* The activity classification of the specification (section 4.3).
ClassifiedActive(st) ==
    \/ st.print_stage # None /\ st.print_stage[1] \notin {"IDLE", "FINISH", "FAILED"}
    \/ st.bed_target_temp # None /\ st.bed_target_temp[1] # 0
    \/ st.nozzle_temp > 85
    \/ st.nozzle_target_temp # None /\ st.nozzle_target_temp[1] > 0

\* the reasons of the four rules, in the order claimed
RuleOrder == <<"bed_temp<40.0", "bed_target_temp=0", "nozzle_target_temp=0", "IDLE state">>

\* whether the i-th rule matches the aggregate st at time t: its condition
\* holds and its own clock is at least 900 s old
RuleMatches(i, st, t) ==
    CASE i = 1 -> st.bed_temp < 40 /\ t - st.threshold_start_bed >= 900
      [] i = 2 -> st.bed_target_temp = Some(0) /\ t - st.threshold_start_bed_target >= 900
      [] i = 3 -> st.nozzle_target_temp = Some(0)
                  /\ t - st.threshold_start_nozzle_target >= 900
      [] i = 4 -> st.print_stage = Some("IDLE") /\ t - st.threshold_since_idle >= 900

MatchingRules(st, t) == {i \in 1..4 : RuleMatches(i, st, t)}

\* the place of the rule with this reason in the order
RuleIndex(reason) == CHOOSE i \in 1..4 : RuleOrder[i] = reason

---------------------------------------------------------------------------
(* C1 *)

---------------------------------------------------------------------------
(* C2 *)

\* C2 as stated: no shutdown is invoked at an arrival whose merged aggregate
\* is classified ACTIVE.
C2_Original == ClassifiedActive(effects.merged) => ~Invoked(effects)

---------------------------------------------------------------------------
(* C3 *)

---------------------------------------------------------------------------
(* C4 *)

---------------------------------------------------------------------------
(* C5 *)

\* C5: after every arrival that invoked the actuator, whatever the exit status
\* of the command and whatever send_email did, the tracker is in its reset
\* state with every clock at the arrival's time.
C5_ResetAfterShutdown ==
    Invoked(effects) => Fresh(StatusTracker, now)

\* The actuator command failed and send_email raised, and the tracker is reset.
C5_Witness ==
    /\ effects.actuator = "failed"
    /\ effects.email = "raised"
    /\ Fresh(StatusTracker, now)

---------------------------------------------------------------------------
(* C6 *)

\* C6: no failure of the actuator command or of send_email leaves on_message:
\* the exception is logged, and after such a failure the next message is
\* still handled.
C6_FailuresDoNotPropagate ==
    /\ ~effects.propagated
    /\ effects.email = "raised" => effects.error_logged
    /\ ((effects.actuator = "failed" \/ effects.email = "raised")
        /\ message_count < MaxMessages) => ENABLED OnMessage

\* send_email raised during a shutdown whose actuator command failed too, the
\* error was logged and the handler can run again.
C6_Witness ==
    /\ effects.actuator = "failed"
    /\ effects.email = "raised"
    /\ effects.error_logged
    /\ message_count < MaxMessages
    /\ ENABLED OnMessage

---------------------------------------------------------------------------
(* C7 *)

\* C7: at an arrival that is not stale, a field absent from the partial status
\* keeps its value in the merged aggregate, a present field takes the reported
\* value, no known field becomes unknown, and a partial with every field
\* absent leaves every field unchanged.
C7_MergeMonotonicity ==
    [][ ~(now' - now > 5 * 60)
        => LET m == effects'.merged
               p == effects'.status
           IN  /\ \A f \in Fields :
                    m[f] = IF p[f] = None THEN StatusTracker[f] ELSE Reported(p, f)
               /\ \A f \in OptionalFields : StatusTracker[f] # None => m[f] # None
               /\ p = EmptyStatus => FieldsOf(m) = FieldsOf(StatusTracker)
      ]_vars

\* An arrival that was not stale and did not report the print stage has been
\* merged into an aggregate that knows it.
C7_Witness ==
    /\ ~effects.stale
    /\ effects.status.print_stage = None
    /\ effects.status # EmptyStatus
    /\ effects.merged.print_stage = Some("PRINTING")
    /\ effects.merged.bed_target_temp = Some(60)
    /\ effects.status.bed_target_temp = None

---------------------------------------------------------------------------
(* C9 *)

\* C9 as stated: no shutdown fires at an arrival whose aggregate has nozzle
\* temperature 90 and print stage IDLE.
C9_Original ==
    (effects.merged.nozzle_temp = 90 /\ effects.merged.print_stage = Some("IDLE"))
        => ~Invoked(effects)

---------------------------------------------------------------------------
(* C8, under SpecScenario *)

\* C8 as stated: in the scenario no shutdown fires before t = 16 min, and the
\* aggregate is fully reset after the one that fires.
C8_Original ==
    /\ power_off_calls # <<>> => power_off_calls[1] >= 16 * 60
    /\ Invoked(effects) => Fresh(StatusTracker, now)

\* C8, amended: in the scenario, started from a freshly reset tracker, no
\* shutdown fires before t = 15 min (900 s after the PRINTING arrival, the
\* last one to re-arm the clocks); the first arrival at or after t = 15 min
\* fires one and leaves the aggregate fully reset; and no second one fires in
\* the 15 minutes that follow.
C8_Scenario ==
    [][ /\ now' < 900 => ~Invoked(effects')
        /\ (now' >= 900 /\ power_off_calls = <<>>)
            => (Invoked(effects') /\ Fresh(StatusTracker', now')
                /\ power_off_calls' = <<now'>>)
        /\ (power_off_calls # <<>> /\ now' - LastCall < 900) => ~Invoked(effects')
      ]_vars

\* The shutdown of the scenario has fired at t = 15 min, before t = 16 min,
\* and a later quiet arrival has been handled without a second one.
C8_Witness ==
    /\ power_off_calls = <<900>>
    /\ now > 900
    /\ ~Invoked(effects)
    /\ message_count >= 6

---------------------------------------------------------------------------
(* C10, under SpecConc *)

\* C10 as stated: two calls of on_message running at once never both invoke
\* the actuator for the same crossing of the idle threshold: any two power-off
\* commands are at least SHUTDOWN_DELAY_SECONDS apart.
C10_Original ==
    \A i, j \in 1..Len(power_off_calls) :
        i < j => power_off_calls[j] - power_off_calls[i] >= SHUTDOWN_DELAY_SECONDS

---------------------------------------------------------------------------
(* C11 *)

Clocks ==
    {"threshold_since_idle", "threshold_start_bed", "threshold_start_bed_target",
     "threshold_start_nozzle_target"}

\* C11: in every reachable state each of the four activity clocks is at most
\* the current time, and at every arrival that neither is stale nor shuts
\* down (no reset) each clock is at least what it was before the arrival.
C11_ClocksBoundedAndMonotone ==
    /\ [](\A c \in Clocks : StatusTracker[c] <= now)
    /\ [][ (~effects'.stale /\ ~Invoked(effects'))
           => \A c \in Clocks : StatusTracker'[c] >= StatusTracker[c] ]_vars

\* An arrival without reset has re-armed one clock (the bed clock, bed at 50)
\* and left another (the idle clock, stage IDLE) where it was, both at or
\* before the current time.
C11_Witness ==
    /\ ~effects.stale
    /\ ~Invoked(effects)
    /\ now > 0
    /\ StatusTracker.print_stage = Some("IDLE")
    /\ StatusTracker.bed_temp = 50
    /\ StatusTracker.threshold_start_bed = now
    /\ StatusTracker.threshold_since_idle < now

---------------------------------------------------------------------------
(* C12 *)

\* the notification reached the sink: send_email ran to its end
Delivered(e) == e.email = "sent"

\* C12 as stated: every arrival that invoked the actuator, whether the
\* command succeeded or failed, wrote the diagnostic log entry and delivered
\* a notification to the sink.
C12_Original ==
    Invoked(effects) => (effects.shutdown_logged /\ Delivered(effects))

\* C12, amended: every arrival that invoked the actuator, whether the command
\* succeeded or failed, logged "Shutdown conditions met" with the reason and
\* called send_email with the reason; send_email either delivers the
\* notification, or skips it when the mailer credentials are unset, or raises,
\* and what it raises is logged as an error by on_message.
C12_ShutdownObservable ==
    Invoked(effects)
        => /\ effects.shutdown_logged
           /\ effects.reason # ""
           /\ effects.email \in EmailOutcomes
           /\ (effects.email = "raised" <=> effects.error_logged)

\* The power-off command failed, the log entry was written and the
\* notification was delivered all the same.
C12_Witness ==
    /\ effects.actuator = "failed"
    /\ effects.shutdown_logged
    /\ Delivered(effects)

---------------------------------------------------------------------------
(* C13 *)

\* A field of the aggregate is unknown when it is None.  bed_temp and
\* nozzle_temp are numbers at all times (0.0 after a reset), never None.
Unknown(st, f) == f \in OptionalFields /\ st[f] = None

\* the field each rule of run_shutdown_strategy reads
RuleField(reason) ==
    CASE reason = "bed_temp<40.0" -> "bed_temp"
      [] reason = "bed_target_temp=0" -> "bed_target_temp"
      [] reason = "nozzle_target_temp=0" -> "nozzle_target_temp"
      [] reason = "IDLE state" -> "print_stage"

\* C13 as stated: after every reset every field of the aggregate is unknown,
\* and the rule that matches at an arrival reads a field that has been
\* reported since the last reset.
C13_Original ==
    [][ /\ Invoked(effects') => \A f \in Fields : Unknown(StatusTracker', f)
        /\ effects'.reason # "" => RuleField(effects'.reason) \in effects'.reported
      ]_vars

---------------------------------------------------------------------------
(* C14 *)

\* C14: at every arrival, stale or not, status_time is the arrival's time when
\* the rules are evaluated and when the handler returns, and the arrival is
\* stale exactly when it comes more than 5 minutes after the arrival before
\* it (after the reset at engine start, for the first arrival).
C14_StampedEveryArrival ==
    [][ /\ effects'.merged.status_time = now'
        /\ StatusTracker'.status_time = now'
        /\ effects'.stale <=> (now' - now > 5 * 60)
      ]_vars

\* A third arrival at t = 900 that is not stale: it comes at most 5 minutes
\* after the second one, and more than 5 minutes after the first.
C14_Witness ==
    /\ message_count = 3
    /\ now = 900
    /\ ~effects.stale
    /\ effects.merged.status_time = 900
    /\ effects.reported # {}
    /\ ~Invoked(effects)

---------------------------------------------------------------------------
(* C15, under SpecConc *)

IsPrefix(s, full) == Len(s) <= Len(full) /\ s = SubSeq(full, 1, Len(s))

---------------------------------------------------------------------------
(* C16 *)

\* the arrival matched a shutdown rule with the aggregate nozzle above 180
HotMatch(e) == e.reason # "" /\ e.merged.nozzle_temp > 180

\* C16 as stated: the actuator is never invoked with the aggregate nozzle
\* temperature above 180; a rule that matches in such a state calls neither
\* the actuator nor send_email and resets nothing, the aggregate and the
\* clocks stay as merged; and the same rule matches again at the next arrival.
C16_Original ==
    [][ /\ effects'.merged.nozzle_temp > 180 => ~Invoked(effects')
        /\ HotMatch(effects')
            => (effects'.waiting /\ effects'.email = "none"
                /\ ~effects'.shutdown_logged /\ StatusTracker' = effects'.merged)
        /\ HotMatch(effects) => effects'.reason = effects.reason
      ]_vars

\* C16, amended: as stated, except for the next arrival: when it is not
\* stale and changes no field of the aggregate, the same rule matches again
\* and the shutdown is skipped again, with the reason of that rule or of a
\* rule tried before it whose clock has reached 900 s in the meantime; when
\* it is stale, the tracker is reset and no rule matches.
C16_HotNozzleGuard ==
    [][ /\ effects'.merged.nozzle_temp > 180 => ~Invoked(effects')
        /\ HotMatch(effects')
            => (effects'.waiting /\ effects'.email = "none"
                /\ ~effects'.shutdown_logged /\ StatusTracker' = effects'.merged)
        /\ (HotMatch(effects) /\ ~(now' - now > 5 * 60)
            /\ FieldsOf(effects'.merged) = FieldsOf(StatusTracker))
            => /\ RuleIndex(effects.reason) \in MatchingRules(effects'.merged, now')
               /\ effects'.reason # ""
               /\ RuleIndex(effects'.reason) <= RuleIndex(effects.reason)
               /\ effects'.waiting
        /\ (HotMatch(effects) /\ now' - now > 5 * 60) => effects'.reason = ""
      ]_vars

\* The bed rule has matched with the nozzle at 200 and been skipped at t = 900
\* and again, at an arrival without news, at t = 1200: no power-off command
\* was given and the bed clock still holds the time of the engine start.
C16_Witness ==
    /\ now = 1200
    /\ message_count = 4
    /\ effects.waiting
    /\ effects.reason = "bed_temp<40.0"
    /\ effects.status = EmptyStatus
    /\ StatusTracker.nozzle_temp = 200
    /\ StatusTracker.threshold_start_bed = 0
    /\ power_off_calls = <<>>

---------------------------------------------------------------------------
(* C17 *)

---------------------------------------------------------------------------
(* C18 *)

\* C18: at every arrival the shutdown path is called with the reason of the
\* first rule, in the order bed_temp, bed_target_temp, nozzle_target_temp,
\* IDLE, that matches the merged aggregate, and is not called when none
\* matches; no arrival gives more than one power-off command.
C18_FirstMatchingRule ==
    [][ LET matching == MatchingRules(effects'.merged, now')
        IN  /\ matching = {} <=> effects'.reason = ""
            /\ \A i \in matching :
                 (\A j \in matching : i <= j) => effects'.reason = RuleOrder[i]
            /\ Len(power_off_calls') <= Len(power_off_calls) + 1
            /\ Invoked(effects') => power_off_calls' = Append(power_off_calls, now')
      ]_vars

\* The bed rule did not match (bed at 50), the three other rules all did, and
\* the printer was shut down once, for the first of them.
C18_Witness ==
    /\ effects.reason = "bed_target_temp=0"
    /\ MatchingRules(effects.merged, now) = {2, 3, 4}
    /\ Invoked(effects)
    /\ power_off_calls = <<now>>

---------------------------------------------------------------------------
(* C19, under SpecCounter *)

\* C19: the message counter is always in 0..999999; the first message sends
\* a full-status request; and at most 60 messages are handled from one
\* full-status request to the next, also when the counter wraps from 999999
\* to 0 in between.
C19_CounterAndFullStatus ==
    /\ [](message_count \in 0..999999)
    /\ [][ last_update = None => effects'.full_status_requested ]_vars
    /\ [](effects.since_request <= 60)

\* The counter has wrapped from 999999 to 0 and the message handled at 0 has
\* sent a full-status request, 40 messages after the one sent at 999960.
C19_Witness ==
    /\ message_count = 1
    /\ now = 101
    /\ effects.full_status_requested
    /\ effects.since_request = 1

====
